---- MODULE Spec2Model ----
(***************************************************************************)
(* The metadata object packer of libzerostash: meta::writer::Writer and   *)
(* its WriteState (src/libzerostash/src/meta/writer.rs).                   *)
(*                                                                         *)
(* A call of write_field, write_next or seal_and_store is one action.     *)
(* The records a field serializes are an input of write_field: a sequence *)
(* of records, each the number of bytes the compression stream emits into *)
(* the object while the record is written. The capability that fails      *)
(* during the call is an input of the call as well.                       *)
(*                                                                         *)
(* Spec follows a Writer from Writer::new. WriteStateSpec applies the      *)
(* methods of WriteState to every state a WriteState can be in.            *)
(*                                                                         *)
(* The capabilities the writer consumes (WriteObject, the compression     *)
(* stream, the header codec, the crypto provider and the backend) are not *)
(* part of writer.rs; they are modelled from their description.           *)
(***************************************************************************)
EXTENDS Integers, Sequences, FiniteSets, TLC

\* ------------------------------------------------------------------ sizes
\* lib.rs: the block size of every object.
BLOCK_SIZE == 4 * 1024 * 1024
\* compress::STREAM_BLOCK_SIZE: one compression frame, smaller than a block.
STREAM_BLOCK_SIZE == 1024 * 1024
\* meta::HEADER_SIZE: the reserved header region at the start of an object.
HEADER_SIZE == 64
\* crypto.tag_len(): the authentication tag reserved at the end of a block.
TagLen == 16
\* WriteObject::default().reserve_tag(tag_len).capacity()
Capacity == BLOCK_SIZE - TagLen

\* Encoded sizes of the parts of a MetaObjectHeader.
HeaderBaseLen == 8
HeaderNextLen == 24
HeaderOffsetLen == 16

\* ----------------------------------------------------------------- bounds
\* Objects the crypto provider names after the root object.
MaxObjects == 2
\* Records one field value serializes.
MaxRecords == 2
\* Frames the write position may run past the capacity before the model
\* stops following it.
MaxOverrun == 1
\* Fields begun in one object before the model stops following it.
MaxOffsets == 3
\* Calls counted from the start of the writer's life.
MaxCalls == 3
\* Frames already in a buffer that a WriteState examined on its own starts with.
MaxFrames == 3

MaxPosition == Capacity + MaxOverrun * STREAM_BLOCK_SIZE

\* ------------------------------------------------------------ value types
Fields == {"A", "B"}
None == <<>>
Some(x) == <<x>>
IsSome(o) == o # None
Unwrap(o) == o[1]

\* ObjectId of the root object, passed to Writer::new.
RootId == 0
\* ObjectId::new(&crypto): the n-th identifier the provider generates.
NewObjectId(n) == n

\* The bytes the stream emits into the object while one record is written,
\* and when it is finished.
EmitSizes == {0, STREAM_BLOCK_SIZE, 2 * STREAM_BLOCK_SIZE}
FlushSizes == {0, STREAM_BLOCK_SIZE \div 4}
\* The capability that fails during a call: compress::stream when a stream is
\* started, the stream's finish or the backend's write_object when an object
\* is sealed. The crypto provider's finalize and encrypt_object return
\* nothing to the writer.
Faults == {"none", "stream", "compressor", "backend"}
SeqsUpTo(S, n) == UNION {[1..k -> S] : k \in 0..n}

\* Field::as_offset and FieldOffset::as_field
AsOffset(f, position) == [field |-> f, offset |-> position]
AsField(fo) == fo.field

\* MetaObjectHeader::new(next, offsets, end)
MetaObjectHeader(next, offs, end) == [next |-> next, offsets |-> offs, end |-> end]
\* serialize_to_vec(&object_header).len()
HeaderLen(h) ==
    HeaderBaseLen + (IF IsSome(h.next) THEN HeaderNextLen ELSE 0)
        + Len(h.offsets) * HeaderOffsetLen

\* ------------------------------------------------------------- WriteState
Idle == [state |-> "Idle", object |-> None]
Parked(object) == [state |-> "Parked", object |-> Some(object)]
Encoding(object) == [state |-> "Encoding", object |-> Some(object)]

\* WriteState::start; serr says that compress::stream reports an error, in
\* which case the buffer handed to it is dropped with the result.
StartKeepsState(enc, serr) ==
    [ok |-> enc.state # "Idle", err |-> "", encoder |-> enc]
Start(enc, serr) ==
    CASE enc.state = "Idle" ->
            [ok |-> FALSE, err |-> "Uninitialized", encoder |-> enc]
      [] enc.state = "Parked" ->
            IF serr
            THEN [ok |-> FALSE, err |-> "stream", encoder |-> Idle]
            ELSE [ok |-> TRUE, err |-> "",
                  encoder |-> Encoding(Unwrap(enc.object))]
      [] enc.state = "Encoding" -> [ok |-> TRUE, err |-> "", encoder |-> enc]

\* WriteState::finish; flush is what the stream still emits into the object,
\* cerr whether the stream reports an error, in which case the buffer is
\* dropped with the result.
Finish(enc, flush, cerr) ==
    CASE enc.state = "Idle" ->
            [ok |-> FALSE, err |-> "Uninitialized", object |-> None,
             encoder |-> Idle]
      [] enc.state = "Parked" ->
            [ok |-> TRUE, err |-> "", object |-> enc.object, encoder |-> Idle]
      [] enc.state = "Encoding" ->
            IF cerr
            THEN [ok |-> FALSE, err |-> "finish", object |-> None,
                  encoder |-> Idle]
            ELSE [ok |-> TRUE, err |-> "",
                  object |-> Some([Unwrap(enc.object) EXCEPT !.position = @ + flush]),
                  encoder |-> Idle]

\* WriteState::writer
WriterRef(enc) ==
    IF enc.state = "Idle"
    THEN [ok |-> FALSE, err |-> "Uninitialized", object |-> None]
    ELSE [ok |-> TRUE, err |-> "", object |-> enc.object]

\* impl Write for WriteState: n bytes reach the object through the stream.
WriteAnywhere(enc, n) ==
    IF enc.state = "Idle"
    THEN [ok |-> FALSE, err |-> "Uninitialized", encoder |-> enc]
    ELSE [ok |-> TRUE, err |-> "",
          encoder |-> [enc EXCEPT !.object = Some([Unwrap(@) EXCEPT !.position = @ + n])]]
Write(enc, n) ==
    CASE enc.state = "Idle" ->
            [ok |-> FALSE, err |-> "Uninitialized", encoder |-> enc]
      [] enc.state = "Parked" ->
            [ok |-> FALSE, err |-> "Inactive", encoder |-> enc]
      [] enc.state = "Encoding" ->
            [ok |-> TRUE, err |-> "",
             encoder |-> Encoding([Unwrap(enc.object) EXCEPT !.position = @ + n])]

\* ----------------------------------------------------------------- Writer
VARIABLES
    objects,          \* Writer.objects: ObjectIndex, Field -> set of ObjectId
    offsets,          \* Writer.offsets: Vec<FieldOffset>
    encoder,          \* Writer.encoder: WriteState
    current_field,    \* Writer.current_field: Option<Field>
    backend,          \* Writer.backend: the stored objects, see Stored
    generated,        \* Writer.crypto: identifiers generated so far
    failed,           \* the panic that ended the last call, "" if none
    overflow_checks,  \* the build panics on integer overflow (else it wraps)
    cont,             \* history: offsets[1] was pushed by seal_and_store
    closes,           \* history: streams finished on the current object
    written,          \* history: <<field, id>> for the records the last call wrote
    sealLog,          \* history: the seal_and_store runs of the last call
    last,             \* history: the call that produced this state
    calls             \* history: calls made so far, counted up to MaxCalls + 1

vars == <<objects, offsets, encoder, current_field, backend, generated, failed,
          overflow_checks, cont, closes, written, sealLog, last, calls>>

\* The Writer as one value, for the operators below.
Cur ==
    [objects |-> objects, offsets |-> offsets, encoder |-> encoder,
     current_field |-> current_field, backend |-> backend,
     generated |-> generated, failed |-> failed, cont |-> cont,
     closes |-> closes, written |-> {}, sealLog |-> <<>>]

Install(w) ==
    /\ objects' = w.objects
    /\ offsets' = w.offsets
    /\ encoder' = w.encoder
    /\ current_field' = w.current_field
    /\ backend' = w.backend
    /\ generated' = w.generated
    /\ failed' = w.failed
    /\ cont' = w.cont
    /\ closes' = w.closes
    /\ written' = w.written
    /\ sealLog' = w.sealLog

\* finish in Encoding: e.finish() ends the stream; n streams were ended on
\* the object before.
Closed(enc, n) == IF enc.state = "Encoding" THEN n + 1 ELSE n

\* write_next inside write_field: the record written belongs to the field
\* being written and lands in the object that is current.
Recorded(recs, field, object) ==
    IF IsSome(field) THEN recs \cup {<<Unwrap(field), object.id>>} ELSE recs

\* A panic unwinds out of the call and leaves the writer as it is then.
Panic(w, why) == [w EXCEPT !.failed = why]

\* self.objects.entry(f).or_default().insert(id)
Insert(index, f, id) == [index EXCEPT ![f] = @ \cup {id}]

\* for fo in self.offsets.drain(..) { entry(fo.as_field()).insert(object.id) }
RECURSIVE DrainOffsets(_, _, _)
DrainOffsets(index, offs, id) ==
    IF offs = <<>> THEN index
    ELSE DrainOffsets(Insert(index, AsField(Head(offs)), id), Tail(offs), id)

\* write_field: self.offsets.push(f.as_offset(position))
PushFront(offs, fo) == <<fo>> \o offs
PushOffset(offs, fo) == Append(offs, fo)

\* write_field: self.objects.entry(f.clone()).or_default().insert(id)
RegisterNothing(index, f, id) == index
RegisterField(index, f, id) == Insert(index, f, id)

\* write_next: capacity - position < STREAM_BLOCK_SIZE, in usize. When the
\* position is past the capacity the difference wraps to a value far above
\* one frame.
NeedsSeal(capacity, position) ==
    IF position <= capacity THEN capacity - position < STREAM_BLOCK_SIZE
    ELSE FALSE

\* seal_and_store: self.current_field.clone().map(|_| next_object_id)
NextPointerAlways(field, next_object_id) == Some(next_object_id)
NextPointer(field, next_object_id) ==
    IF IsSome(field) THEN Some(next_object_id) ELSE None

\* seal_and_store: assert!(header_bytes.len() < HEADER_SIZE)
HeaderFitsAlways(len) == TRUE
HeaderFitsInverted(len) == len > HEADER_SIZE
HeaderFits(len) == len < HEADER_SIZE

\* seal_and_store: if let Some(f) = &self.current_field { push(as_offset(HEADER_SIZE)) }
ContinuationDropped(field) == <<>>
Continuation(field) ==
    IF IsSome(field) THEN <<AsOffset(Unwrap(field), HEADER_SIZE)>> ELSE <<>>

\* seal_and_store: object.set_id(next); object.clear(); object.seek(Start(HEADER_SIZE))
ReinitializeKeepPosition(object, next_object_id) ==
    [object EXCEPT !.id = next_object_id]
ReinitializeKeepId(object, next_object_id) == [object EXCEPT !.position = HEADER_SIZE]
Reinitialize(object, next_object_id) ==
    [object EXCEPT !.id = next_object_id, !.position = HEADER_SIZE]

\* write_field: STREAM_BLOCK_SIZE - (object.position() - HEADER_SIZE) % STREAM_BLOCK_SIZE
SkipFromStart(position) == STREAM_BLOCK_SIZE - (position % STREAM_BLOCK_SIZE)
Skip(position) ==
    STREAM_BLOCK_SIZE - ((position - HEADER_SIZE) % STREAM_BLOCK_SIZE)

\* seal_and_store: what has been done to the buffer being sealed, and the
\* steps of the seal so far in the order they were taken. head_encrypted says
\* that the header was in the buffer when it was encrypted.
Finished ==
    [finalized |-> FALSE, head |-> FALSE, encrypted |-> FALSE,
     head_encrypted |-> FALSE, steps |-> <<"finish">>]
\* self.crypto.finalize_object(&mut object)
Finalize(b) == [b EXCEPT !.finalized = TRUE, !.steps = Append(@, "finalize")]
\* object.write_head(&header_bytes)
WriteHead(b) == [b EXCEPT !.head = TRUE, !.steps = Append(@, "write_head")]
\* self.crypto.encrypt_object(&mut object)
EncryptObject(b) ==
    [b EXCEPT !.encrypted = TRUE, !.head_encrypted = b.head,
              !.steps = Append(@, "encrypt_object")]
\* seal_and_store, lines 108 to 111: write the header, then encrypt.
PrepareEncryptFirst(b) == WriteHead(EncryptObject(b))
Prepare(b) == EncryptObject(WriteHead(b))

\* History entry of one seal. ctx is the field whose write_field call the
\* seal interrupted, None for a seal outside write_field.
\* header is the header built (None if the seal failed before), gen the
\* identifier generated for the next object, cont whether the first offset was
\* pushed by the seal before, added the offsets whose (field, id) pair the
\* drain finds missing from the index, steps the steps the seal completed,
\* closes the streams ended on the object up to its finalization, after the
\* write state and the offsets the seal left behind (None if it failed).
SealEntry(id, ctx, w, hdr, gen, outcome, steps, after) ==
    [id |-> id, ctx |-> ctx, cont |-> w.cont, header |-> hdr,
     gen |-> gen, outcome |-> outcome, steps |-> steps, after |-> after,
     closes |-> Closed(w.encoder, w.closes),
     added |-> {i \in 1..Len(w.offsets) : id \notin w.objects[AsField(w.offsets[i])]}]

\* What the model keeps of an object write_object accepted: its id and the
\* next pointer of its header, and as history the identifier generated while
\* it was sealed, the field whose write_field call the seal interrupted and
\* what had been done to the buffer when the backend received it.
Stored(id, next, gen, ctx, b) ==
    [id |-> id, next |-> next, gen |-> gen, ctx |-> ctx,
     head |-> b.head, head_encrypted |-> b.head_encrypted]

\* Writer::seal_and_store
SealAndStoreOp(w, flush, fault, ctx) ==
    LET was == WriterRef(w.encoder)
        fin == Finish(w.encoder, flush, fault = "compressor")
    IN  IF ~fin.ok
        THEN \* self.encoder.finish().unwrap()
             LET w1 == [w EXCEPT !.encoder = fin.encoder]
             IN  IF was.ok
                 THEN Panic([w1 EXCEPT !.sealLog = Append(@,
                                SealEntry(Unwrap(was.object).id, ctx, w, None,
                                          None, "compressor", <<>>, None))],
                            "finish")
                 ELSE Panic(w1, "Uninitialized")
        ELSE
        LET object == Unwrap(fin.object)
            end == object.position
            next_object_id == NewObjectId(w.generated + 1)
            object_header ==
                MetaObjectHeader(NextPointer(w.current_field, next_object_id),
                                 w.offsets, end)
            w1 == [w EXCEPT !.encoder = fin.encoder, !.generated = @ + 1,
                            !.closes = Closed(w.encoder, @)]
            finalized == Finalize(Finished)
            sealed == Prepare(finalized)
            after == [encoder |-> Parked(Reinitialize(object, next_object_id)),
                      offsets |-> Continuation(w.current_field)]
            entry(outcome, steps, left) ==
                SealEntry(object.id, ctx, w, Some(object_header),
                          Some(next_object_id), outcome, steps, left)
        IN  IF ~HeaderFits(HeaderLen(object_header))
            THEN Panic([w1 EXCEPT !.sealLog =
                            Append(@, entry("header", finalized.steps, None))],
                       "assertion failed")
            ELSE IF fault = "backend"
            THEN Panic([w1 EXCEPT !.sealLog =
                            Append(@, entry("backend", sealed.steps, None))],
                       "write_object")
            ELSE [w1 EXCEPT
                    !.backend = Append(@, Stored(object.id, object_header.next,
                                                 next_object_id, ctx, sealed)),
                    !.objects = DrainOffsets(@, w.offsets, object.id),
                    !.encoder = after.encoder,
                    !.offsets = after.offsets,
                    !.cont = IsSome(w.current_field),
                    !.closes = 0,
                    !.sealLog = Append(@, entry("stored",
                                    sealed.steps \o <<"write_object", "drain", "reset">>,
                                    Some(after)))]

\* FieldWriter::write_next. In a build that checks integer overflow,
\* capacity - position panics when the position is past the capacity.
WriteNextOp(w, emit, flush, fault, ctx) ==
    IF w.failed # "" THEN w
    ELSE
    LET writer == WriterRef(w.encoder)
    IN  IF ~writer.ok THEN Panic(w, "Uninitialized")
        ELSE
        LET capacity == Capacity
            position == Unwrap(writer.object).position
        IN  IF position > capacity /\ overflow_checks
            THEN Panic(w, "attempt to subtract with overflow")
            ELSE
            LET w1 == IF NeedsSeal(capacity, position)
                      THEN SealAndStoreOp(w, flush, fault, ctx)
                      ELSE w
            IN  IF w1.failed # "" THEN w1
                ELSE \* serialize_to_writer(self.encoder.start().unwrap(), &obj)
                     LET started == Start(w1.encoder, fault = "stream")
                     IN  IF ~started.ok
                         THEN Panic([w1 EXCEPT !.encoder = started.encoder], "start")
                         ELSE [w1 EXCEPT
                                 !.encoder = Write(started.encoder, emit).encoder,
                                 !.written = Recorded(@, w1.current_field,
                                                      Unwrap(started.encoder.object))]

\* obj.serialize(self): the field value calls write_next once per record.
RECURSIVE Serialize(_, _, _, _, _)
Serialize(w, recs, flush, fault, ctx) ==
    IF recs = <<>> THEN w
    ELSE Serialize(WriteNextOp(w, Head(recs), flush, fault, ctx),
                   Tail(recs), flush, fault, ctx)

\* Writer::write_field
WriteFieldOp(w, f, recs, flush, fault) ==
    LET writer == WriterRef(w.encoder)
    IN  IF ~writer.ok THEN Panic(w, "Uninitialized")
        ELSE
        LET started == Start(w.encoder, fault = "stream")
            w0 == [w EXCEPT
                     !.offsets = PushOffset(@, AsOffset(f, Unwrap(writer.object).position)),
                     !.objects = RegisterField(@, f, Unwrap(writer.object).id),
                     !.encoder = started.encoder]
            w1 == [w0 EXCEPT !.current_field = Some(f)]
            w2 == Serialize(w1, recs, flush, fault, Some(f))
        IN  IF ~started.ok THEN Panic(w0, "start")
            ELSE IF w2.failed # "" THEN w2
            ELSE
            \* self.current_field = None; self.encoder.finish().unwrap()
            LET w3 == [w2 EXCEPT !.current_field = None]
                fin == Finish(w3.encoder, flush, fault = "compressor")
                object == Unwrap(fin.object)
                skip == Skip(object.position)
            IN  IF ~fin.ok
                THEN Panic([w3 EXCEPT !.encoder = fin.encoder], "finish")
                ELSE [w3 EXCEPT
                        !.closes = Closed(w3.encoder, @),
                        !.encoder = Parked([object EXCEPT !.position = @ + skip])]

\* ---------------------------------------------------------------- actions
Call(op, f) == [op |-> op, field |-> f]

Within(w) ==
    /\ w.generated <= MaxObjects
    /\ Len(w.offsets) <= MaxOffsets
    /\ IsSome(w.encoder.object) => Unwrap(w.encoder.object).position <= MaxPosition

Step(op, f, w) ==
    /\ failed = ""
    /\ Within(w)
    /\ Install(w)
    /\ last' = Call(op, f)
    /\ UNCHANGED overflow_checks
    /\ calls' = IF calls <= MaxCalls THEN calls + 1 ELSE calls

WriteField ==
    \E f \in Fields, recs \in SeqsUpTo(EmitSizes, MaxRecords),
       flush \in FlushSizes, fault \in Faults :
        Step("write_field", Some(f), WriteFieldOp(Cur, f, recs, flush, fault))

WriteNext ==
    \E emit \in EmitSizes, flush \in FlushSizes, fault \in Faults :
        Step("write_next", None, WriteNextOp(Cur, emit, flush, fault, None))

SealAndStore ==
    \E flush \in FlushSizes, fault \in Faults :
        Step("seal_and_store", None, SealAndStoreOp(Cur, flush, fault, None))

\* Writer::new(root_object_id, backend, crypto)
Init ==
    /\ objects = [f \in Fields |-> {}]
    /\ offsets = <<>>
    /\ encoder = Parked([id |-> RootId, position |-> HEADER_SIZE])
    /\ current_field = None
    /\ backend = <<>>
    /\ generated = 0
    /\ failed = ""
    /\ overflow_checks \in BOOLEAN
    /\ cont = FALSE
    /\ closes = 0
    /\ written = {}
    /\ sealLog = <<>>
    /\ last = Call("new", None)
    /\ calls = 0

Next == WriteField \/ WriteNext \/ SealAndStore

Spec == Init /\ [][Next]_vars

\* ------------------------------------------------- WriteState on its own
\* The methods of WriteState applied to every state it can be in, one call
\* after the other.
Buffers ==
    [id : 0..MaxObjects,
     position : {HEADER_SIZE + k * STREAM_BLOCK_SIZE : k \in 0..MaxFrames}]
WriteStates ==
    {Idle} \cup {Parked(o) : o \in Buffers} \cup {Encoding(o) : o \in Buffers}

\* History of a method call: the state it was made in, its argument, its
\* result and the buffer it returned.
MethodCall(op, before, arg, res, object) ==
    [op |-> op, field |-> None, before |-> before, arg |-> arg,
     ok |-> res.ok, err |-> res.err, object |-> object]

Method(op, arg, res, object) ==
    /\ IsSome(res.encoder.object)
          => Unwrap(res.encoder.object).position <= MaxPosition
    /\ encoder' = res.encoder
    /\ last' = MethodCall(op, encoder, arg, res, object)
    /\ UNCHANGED <<objects, offsets, current_field, backend, generated, failed,
                   overflow_checks, cont, closes, written, sealLog, calls>>

StartCall ==
    \E serr \in BOOLEAN : Method("start", 0, Start(encoder, serr), None)
FinishCall ==
    \E flush \in FlushSizes, cerr \in BOOLEAN :
        LET res == Finish(encoder, flush, cerr)
        IN  Method("finish", flush, res, res.object)
WriterCall ==
    LET res == WriterRef(encoder)
    IN  Method("writer", 0,
               [ok |-> res.ok, err |-> res.err, encoder |-> encoder], None)
WriteCall ==
    \E n \in EmitSizes : Method("write", n, Write(encoder, n), None)
\* self.encoder = WriteState::Parked(object), with the buffer finish returned
ParkCall ==
    /\ last.op = "finish"
    /\ last.ok
    /\ Method("park", 0, [ok |-> TRUE, err |-> "",
                          encoder |-> Parked(Unwrap(last.object))], None)

WriteStateInit ==
    /\ encoder \in WriteStates
    /\ last = MethodCall("new", Idle, 0, [ok |-> TRUE, err |-> ""], None)
    /\ objects = [f \in Fields |-> {}]
    /\ offsets = <<>>
    /\ current_field = None
    /\ backend = <<>>
    /\ generated = 0
    /\ failed = ""
    /\ overflow_checks = TRUE
    /\ cont = FALSE
    /\ closes = 0
    /\ written = {}
    /\ sealLog = <<>>
    /\ calls = 0

WriteStateNext == StartCall \/ FinishCall \/ WriterCall \/ WriteCall \/ ParkCall

WriteStateSpec == WriteStateInit /\ [][WriteStateNext]_vars

\* ------------------------------------------------------------ properties
Position == Unwrap(encoder.object).position
Returned(op) == last.op = op /\ failed = ""
SealEntries == {sealLog[i] : i \in 1..Len(sealLog)}
StoredIds == {backend[k].id : k \in 1..Len(backend)}
\* The panics a failing capability causes; the others are the writer's own.
InjectedFailures == {"start", "finish", "write_object"}

\* Only write_next has been called since new, and nothing has been sealed:
\* write_field pushes an offset and a seal generates an identifier.
OnlyWriteNext ==
    /\ last.op = "write_next"
    /\ offsets = <<>>
    /\ generated = 0
    /\ failed = ""

\* C1: after any sequence of write_next calls the write position of the
\* active object is at most its capacity; a write that would pass the
\* capacity is preceded by a seal.
NoSilentOverflow == OnlyWriteNext => Position <= Capacity

\* C2: a field whose write_field call was interrupted by the seal of obj1 and
\* continued in obj2 is, once obj2 is stored as well, in the index under both
\* obj1 and obj2.
FieldAttribution ==
    \A k \in 1..Len(backend) :
        (IsSome(backend[k].ctx) /\ backend[k].gen \in StoredIds)
            => {backend[k].id, backend[k].gen} \subseteq objects[Unwrap(backend[k].ctx)]
FieldAttributionWitness ==
    /\ Len(backend) = 2
    /\ IsSome(backend[1].ctx)
    /\ backend[2].id = backend[1].gen
    /\ failed = ""

\* C3: a seal whose encoded header is larger than HEADER_SIZE fails on the
\* header check, and the backend has not stored the object.
HeaderFitInvariant ==
    \A e \in SealEntries :
        (IsSome(e.header) /\ HeaderLen(Unwrap(e.header)) > HEADER_SIZE)
            => /\ e.outcome = "header"
               /\ failed = "assertion failed"
               /\ e.id \notin StoredIds
HeaderFitWitness ==
    \E e \in SealEntries :
        /\ IsSome(e.header)
        /\ HeaderLen(Unwrap(e.header)) > HEADER_SIZE
        /\ e.outcome = "header"

\* C4: when write_field has returned, the write position less HEADER_SIZE is a
\* multiple of STREAM_BLOCK_SIZE.
Alignment ==
    Returned("write_field") => (Position - HEADER_SIZE) % STREAM_BLOCK_SIZE = 0
AlignmentWitness ==
    /\ Returned("write_field")
    /\ \E e \in SealEntries :
          e.outcome = "stored" /\ (Unwrap(e.header).end - HEADER_SIZE) % STREAM_BLOCK_SIZE # 0
    /\ Position > HEADER_SIZE + STREAM_BLOCK_SIZE

\* C5: a new writer, two write_field calls for different fields that seal
\* nothing, then seal_and_store: one object is stored, the root object; its
\* header has next = None and the two offsets in call order; the index maps
\* each of the two fields to the root object alone and no other field.
TwoFieldsOneObject ==
    [][(/\ calls = 2 /\ failed = "" /\ generated = 0
        /\ Len(offsets) = 2 /\ AsField(offsets[1]) # AsField(offsets[2])
        /\ last'.op = "seal_and_store"
        /\ failed' \notin InjectedFailures)
       => /\ failed' = ""
          /\ Len(backend') = 1
          /\ backend'[1].id = RootId
          /\ backend'[1].next = None
          /\ Len(sealLog') = 1
          /\ LET h == Unwrap(sealLog'[1].header)
             IN  /\ h.next = None
                 /\ Len(h.offsets) = 2
                 /\ AsField(h.offsets[2]) = Unwrap(last.field)
                 /\ AsField(h.offsets[1]) # Unwrap(last.field)
          /\ objects' = [f \in Fields |->
                           IF f \in {AsField(offsets[1]), AsField(offsets[2])}
                           THEN {RootId} ELSE {}]]_vars
TwoFieldsOneObjectWitness ==
    /\ calls = 3
    /\ Returned("seal_and_store")
    /\ Len(backend) = 1
    /\ Len(sealLog) = 1
    /\ Len(Unwrap(sealLog[1].header).offsets) = 2
    /\ \A f \in Fields : objects[f] = {RootId}

\* C6: the header of every seal has next = Some(the generated id) exactly when
\* the seal interrupted a write_field call, and next = None otherwise.
NextIffMidField ==
    \A e \in SealEntries :
        IsSome(e.header) =>
            /\ IsSome(Unwrap(e.header).next) <=> IsSome(e.ctx)
            /\ IsSome(e.ctx) => Unwrap(e.header).next = e.gen
NextIffMidFieldWitness ==
    /\ \E e \in SealEntries : e.outcome = "stored" /\ IsSome(e.ctx)
    /\ \E k \in 1..Len(backend) : backend[k].next = None

\* C7: the first stored object has the root id, every later one the id
\* generated while its predecessor was sealed, and a header's next pointer
\* names the object stored next.
Chaining ==
    /\ backend # <<>> => backend[1].id = RootId
    /\ \A k \in 1..(Len(backend) - 1) :
          /\ backend[k + 1].id = backend[k].gen
          /\ IsSome(backend[k].next) => Unwrap(backend[k].next) = backend[k + 1].id
ChainingWitness ==
    /\ Len(backend) = 2
    /\ IsSome(backend[1].next)

\* C8: seal_and_store on an object into which no field was written succeeds,
\* stores one object whose header has no offsets and next = None, and leaves
\* the index as it was.
EmptySeal ==
    [][(/\ failed = "" /\ offsets = <<>>
        /\ last'.op = "seal_and_store"
        /\ failed' \notin InjectedFailures)
       => /\ failed' = ""
          /\ Len(backend') = Len(backend) + 1
          /\ backend'[Len(backend')].id = Unwrap(encoder.object).id
          /\ backend'[Len(backend')].next = None
          /\ Len(sealLog') = 1
          /\ Unwrap(sealLog'[1].header).offsets = <<>>
          /\ Unwrap(sealLog'[1].header).next = None
          /\ objects' = objects]_vars
EmptySealWitness ==
    /\ Returned("seal_and_store")
    /\ Len(sealLog) = 1
    /\ sealLog[1].outcome = "stored"
    /\ Unwrap(sealLog[1].header).offsets = <<>>

\* C9: when a capability fails during a seal, no index entry names the object
\* whose seal failed.
NoFailedObjectRegistered ==
    \A e \in SealEntries :
        e.outcome \in {"compressor", "backend"}
            => \A f \in Fields : e.id \notin objects[f]

\* C10: the drain at a seal finds the (field, id) pair of every offset that
\* write_field pushed already in the index; it adds a pair only for the first
\* offset, when that was pushed by the seal before as a continuation.
DrainIdempotent ==
    \A e \in SealEntries : e.added \subseteq (IF e.cont THEN {1} ELSE {})
DrainIdempotentWitness ==
    /\ \E e \in SealEntries : e.outcome = "stored" /\ e.cont /\ e.added = {1}
    /\ failed = ""

\* C11: when write_field(f, ..) has returned, the index entry of f holds the
\* id of every object the field touched: the objects sealed during the call
\* and the object that is current when the call returns.
TouchedRegistered ==
    Returned("write_field") =>
        ({e.id : e \in SealEntries} \cup {Unwrap(encoder.object).id})
            \subseteq objects[Unwrap(last.field)]

\* C12: after any sequence of calls the write position lies between
\* HEADER_SIZE and the capacity; the padding seek of write_field does not
\* take it past the capacity, and write_next's capacity - position never
\* underflows.
PositionInBounds ==
    /\ failed = "" => (HEADER_SIZE <= Position /\ Position <= Capacity)
    /\ failed # "attempt to subtract with overflow"

\* C13: a seal fails on the header check only when the encoded header is
\* larger than HEADER_SIZE; a header of HEADER_SIZE bytes or less is written
\* and, unless a capability fails, the object is stored.
FittingHeaderAccepted ==
    \A e \in SealEntries :
        (IsSome(e.header) /\ HeaderLen(Unwrap(e.header)) <= HEADER_SIZE)
            => e.outcome # "header"

\* C14: when new, write_field or seal_and_store has returned the write state
\* is Parked, when write_next has returned it is Encoding; it is never Idle,
\* and it owns one WriteObject.
NeverIdle ==
    failed = "" =>
        /\ last.op \in {"new", "write_field", "seal_and_store"}
              => encoder.state = "Parked"
        /\ last.op = "write_next" => encoder.state = "Encoding"
        /\ encoder.state # "Idle"
        /\ IsSome(encoder.object)
NeverIdleWitness ==
    /\ Returned("write_next")
    /\ encoder.state = "Encoding"
    /\ \E e \in SealEntries : e.outcome = "stored"
    /\ calls > 1

\* C15: the steps of every seal are taken in the order finish, finalize,
\* write the header, encrypt, hand to the backend, drain the offsets, reset
\* the buffer; a seal that fails has drained nothing; every object the
\* backend received had its header written and was encrypted after that.
SealOrder ==
    <<"finish", "finalize", "write_head", "encrypt_object", "write_object",
      "drain", "reset">>
IsPrefix(s, t) == Len(s) <= Len(t) /\ SubSeq(t, 1, Len(s)) = s
SealStepsInOrder ==
    /\ \A e \in SealEntries :
          /\ IsPrefix(e.steps, SealOrder)
          /\ e.outcome = "stored" => e.steps = SealOrder
          /\ (e.outcome # "stored" /\ IsSome(e.header))
                => /\ offsets = Unwrap(e.header).offsets
                   /\ e.id \notin StoredIds
    /\ \A k \in 1..Len(backend) : backend[k].head /\ backend[k].head_encrypted
SealStepsInOrderWitness ==
    /\ failed = "write_object"
    /\ Len(backend) = 1
    /\ \E e \in SealEntries : e.outcome = "backend" /\ Len(Unwrap(e.header).offsets) = 2

\* The buffers a WriteState owns, and the buffers a call left with the state
\* and its caller together.
Owned(enc) == IF IsSome(enc.object) THEN {Unwrap(enc.object).id} ELSE {}
HandedOut(o) == IF IsSome(o) THEN {Unwrap(o).id} ELSE {}

\* C16: write succeeds only in Encoding, where the bytes go to the stream; in
\* Idle it fails with "Uninitialized", in Parked with "Inactive", and a
\* failing write leaves the state and its buffer as they were.
WriteOnlyEncoding ==
    last.op = "write" =>
        /\ last.ok <=> last.before.state = "Encoding"
        /\ last.before.state = "Idle" => last.err = "Uninitialized"
        /\ last.before.state = "Parked" => last.err = "Inactive"
        /\ ~last.ok => encoder = last.before
        /\ last.ok =>
              encoder = Encoding([Unwrap(last.before.object) EXCEPT
                                     !.position = @ + last.arg])
WriteOnlyEncodingWitness ==
    /\ last.op = "write"
    /\ last.before.state = "Parked"
    /\ last.err = "Inactive"
    /\ last.arg > 0
    /\ encoder = last.before

\* C17: start takes Parked to Encoding with the same buffer, leaves Encoding
\* as it is and fails with "Uninitialized" in Idle; finish from Encoding or
\* Parked returns the buffer and leaves Idle, from Idle it fails with
\* "Uninitialized" and leaves Idle; after either, the state and the caller
\* together hold exactly the buffers the state held before.
TransitionTable ==
    /\ last.op = "start" =>
          /\ last.before.state = "Parked"
                => last.ok /\ encoder = Encoding(Unwrap(last.before.object))
          /\ last.before.state = "Encoding" => last.ok /\ encoder = last.before
          /\ last.before.state = "Idle"
                => ~last.ok /\ last.err = "Uninitialized" /\ encoder = Idle
    /\ last.op = "finish" =>
          /\ encoder = Idle
          /\ last.before.state \in {"Parked", "Encoding"}
                => last.ok /\ IsSome(last.object)
          /\ last.before.state = "Parked" => last.object = last.before.object
          /\ last.before.state = "Idle"
                => ~last.ok /\ last.err = "Uninitialized"
    /\ last.op \in {"start", "finish"} =>
          /\ Owned(encoder) \cup HandedOut(last.object) = Owned(last.before)
          /\ Owned(encoder) \cap HandedOut(last.object) = {}

\* C18: on every stored object into which a field was written, the
\* compression stream has been ended exactly once when the object is
\* finalized, however many write_field calls were made into it.
StreamClosedOnce ==
    \A e \in SealEntries :
        (e.outcome = "stored" /\ Unwrap(e.header).offsets # <<>>)
            => e.closes = 1

\* C19: every (field, id) pair of the index names an object that holds at
\* least one record of the field, also after a write_field that serializes no
\* record and after one whose first write_next seals the object. Records stay
\* where they are, so this says that every pair a call adds to the index is
\* one the call wrote a record for, or one of a field continued into the
\* object by an earlier call, which wrote a record there.
ContinuedInto(f, id) ==
    /\ cont
    /\ AsField(offsets[1]) = f
    /\ Unwrap(encoder.object).id = id
IndexedHoldsRecord ==
    [][\A f \in Fields : \A id \in objects'[f] \ objects[f] :
          <<f, id>> \in written' \/ ContinuedInto(f, id)]_vars

====
